---- MODULE Spec2Model ----
(***************************************************************************)
(* bench-map: the park search/list component (src/components/Parks.vue),   *)
(* the event bus (src/main.ts) and the map component's "park" handler      *)
(* (src/components/Map.vue), as one state machine.                         *)
(*                                                                         *)
(* Strings are sequences of one-character strings, so that trim,           *)
(* toLowerCase and includes are computed character by character.           *)
(* A nullable value is <<>> (null) or <<v>>.                               *)
(***************************************************************************)
EXTENDS Integers, Sequences, FiniteSets, TLC

\* ------------------------------------------------------------------ bounds
\* Longest query typed in the data specification.
MaxQueryLen == 2
\* Longest query typed in the interaction specification.
MaxUiQueryLen == 1
\* Largest statistics file of the interaction specification, in records.
MaxParks == 2
\* Most "park" events published in one behaviour.
MaxEvents == 2
\* Most blur timers pending at once.
MaxTimers == 2
\* How far the data specification's files run past searchLimit and the top-10 cut.
MaxOver == 3

\* ------------------------------------------------------- program constants
\* data(): searchLimit
SearchLimit == 2000
\* topParks: .slice(0, 10)
TopLimit == 10

\* ------------------------------------------------------------------ values
None == <<>>
Some(v) == <<v>>

Min(a, b) == IF a < b THEN a ELSE b
Max(a, b) == IF a > b THEN a ELSE b

\* ----------------------------------------------------------------- strings
\* String.prototype.toLowerCase, one character.
LowerChar(c) ==
  CASE c = "P" -> "p"
    [] c = "C" -> "c"
    [] c = "E" -> "e"
    [] OTHER -> c

\* String.prototype.toLowerCase
ToLower(s) == [i \in 1..Len(s) |-> LowerChar(s[i])]

IsSpace(c) == c = " "

RECURSIVE TrimStart(_)
TrimStart(s) ==
  IF s # <<>> /\ IsSpace(Head(s)) THEN TrimStart(Tail(s)) ELSE s

RECURSIVE TrimEnd(_)
TrimEnd(s) ==
  IF s # <<>> /\ IsSpace(s[Len(s)]) THEN TrimEnd(SubSeq(s, 1, Len(s) - 1)) ELSE s

\* String.prototype.trim
Trim(s) == TrimEnd(TrimStart(s))

\* String.prototype.includes
Includes(h, q) ==
  \E off \in 0..(Len(h) - Len(q)) : SubSeq(h, off + 1, off + Len(q)) = q

\* String(x ?? "") of a nullable string field.
StringOf(f) == IF f = None THEN <<>> ELSE f[1]

\* `${name} ${city} ${state}`.toLowerCase()
Haystack(park) ==
  ToLower(StringOf(park.name) \o <<" ">> \o StringOf(park.city)
          \o <<" ">> \o StringOf(park.state))

\* ------------------------------------------------------------ park records
\* ParkItem (types.ts) with the two optional columns the decode projects.
\* name, city and state are nullable strings; envelope is the polygon's outer
\* ring, envelope.coordinates[0], a sequence of <<lng, lat>>.
ParkName(i) ==
  IF i % 1500 = 0 \/ i = 2 THEN <<"C", "e">>
  ELSE IF i % 2 = 1 THEN <<"P", "r">>
  ELSE <<"c", "P">>

ParkCity(i) ==
  CASE i % 4 = 3 -> Some(<<"P">>)
    [] i % 4 = 0 /\ i % 1500 # 0 -> Some(<<"c", "e">>)
    [] OTHER -> None

ParkState(i) ==
  CASE i % 5 = 0 /\ i % 1500 # 0 -> Some(<<"p", "r">>)
    [] i % 5 = 4 -> Some(<<>>)
    [] OTHER -> None

\* Bench counts: jumbled, with ties, among the first records; 0 afterwards.
ParkCount(i) == IF i <= TopLimit + MaxOver THEN (i * 5) % 7 ELSE 0

ParkRing(i) == << <<i, i>>, <<i + 1, i>>, <<i + 1, i + 2>>, <<i, i>> >>

Park(i) ==
  [osm_id |-> i, name |-> Some(ParkName(i)), count |-> ParkCount(i),
   envelope |-> ParkRing(i), city |-> ParkCity(i), state |-> ParkState(i)]

\* The statistics file holding parks 1..n in this order.
FileOf(n) == [i \in 1..n |-> Park(i)]

\* The same records in the opposite order.
Reverse(s) == [k \in 1..Len(s) |-> s[Len(s) + 1 - k]]

\* The statistics files of the interaction specification: parks 1..n for every
\* n up to MaxParks, and the largest in reverse order.
SmallFiles == {FileOf(n) : n \in 0..MaxParks} \cup {Reverse(FileOf(MaxParks))}

\* The statistics files of the data specification: sizes around 0, around the
\* top-10 cut and around searchLimit.
DataSizes ==
  (0..MaxOver) \cup ((TopLimit - 1)..(TopLimit + MaxOver))
    \cup ((SearchLimit - 1)..(SearchLimit + MaxOver))

LargeFiles == {FileOf(n) : n \in DataSizes}

\* created_at values of metadata.json.
CreatedAts == {"2024-05-01T12:00:00Z", "garbage"}

\* new Date(created_at).toLocaleDateString("en-US", {year, month: "long", day})
FormatDate(created_at) ==
  IF created_at = "2024-05-01T12:00:00Z" THEN "May 1, 2024" ELSE "Invalid Date"

\* ------------------------------------------------------------------ queries
QueryChars == {"p", "P", " "}
UiQueryChars == {"p", " "}

StringsUpTo(chars, n) == UNION {[1..k -> chars] : k \in 0..n}

DataQueries == StringsUpTo(QueryChars, MaxQueryLen)
UiQueries == StringsUpTo(UiQueryChars, MaxUiQueryLen)

\* -------------------------------------------------------------------- state
VARIABLES
  \* Parks.vue data()
  parkData,        \* None | Some(sequence of park records)
  selected,        \* None | Some(park)
  loading,
  createdAt,       \* None | Some(string)
  searchQuery,
  highlightIndex,  \* 0-based
  resultsOpen,
  \* Parks.vue mounted(): the await it is suspended at
  mountPc,
  \* the search input and the window
  focused,         \* the search input has the focus
  timers,          \* closeResultsSoon timers pending
  scrollRequest,   \* the scrollToItem call of the event handled last:
                   \* None | Some(index)
  \* Map.vue
  mapVariant,      \* "pmtiles" | "geojson": which Map.vue is deployed
  subscribed,      \* the map's handler is registered on the bus
  featureState,    \* ids of the parks features with {clicked: true}
  viewport,        \* None | Some(last fitBounds / flyTo request)
  \* history
  published,       \* payloads passed to emitter.emit("park", _), in order
  delivered,       \* payloads the map's handler was called with, in order
  lastEvent        \* the event handled last: <<name>> or <<name, argument>>

vars ==
  <<parkData, selected, loading, createdAt, searchQuery, highlightIndex,
    resultsOpen, mountPc, focused, timers, scrollRequest, mapVariant,
    subscribed, featureState, viewport, published, delivered, lastEvent>>

listVars ==
  <<selected, searchQuery, highlightIndex, resultsOpen, focused, timers>>
mapVars == <<mapVariant, subscribed, featureState, viewport>>
busVars == <<published, delivered>>

\* ------------------------------------------------------- computed properties
\* this.searchQuery.trim().toLowerCase()
QueryKey(s) == ToLower(Trim(s))

\* The filter's callback.
ParkMatches(park, q) == Includes(Haystack(park), q)

\* A mutant of Slice: no cut.
SliceAll(s, n) == s

\* Array.prototype.slice(0, n)
Slice(s, n) == SubSeq(s, 1, Min(Len(s), n))

\* filteredParks over a dataset and a query.
FilterParks(data, query) ==
  LET q == QueryKey(query)
      matches == IF q # <<>>
                 THEN SelectSeq(data, LAMBDA park : ParkMatches(park, q))
                 ELSE data
  IN  Slice(matches, SearchLimit)

filteredParks ==
  IF parkData = None THEN <<>> ELSE FilterParks(parkData[1], searchQuery)

\* Number(count) of a bigint bench count: exact below 2^53, where every count
\* of the model lies.
NumberOf(count) == count

\* A mutant of Compare: ascending.
CompareAscending(a, b) == NumberOf(a.count) - NumberOf(b.count)

\* (a, b) => Number(b.count) - Number(a.count)
Compare(a, b) == NumberOf(b.count) - NumberOf(a.count)

\* Array.prototype.sort(Compare): a stable sort, here by insertion from the
\* left. x goes behind the last element that does not sort after it.
RECURSIVE InsertPos(_, _, _)
InsertPos(acc, x, j) ==
  IF j = 0 THEN 0
  ELSE IF Compare(acc[j], x) <= 0 THEN j
  ELSE InsertPos(acc, x, j - 1)

Insert(acc, x) ==
  LET p == InsertPos(acc, x, Len(acc))
  IN  SubSeq(acc, 1, p) \o <<x>> \o SubSeq(acc, p + 1, Len(acc))

\* acc with s[lo], ..., s[hi] inserted one after the other, left to right. The
\* range is halved, and the left half's result measured before the right half
\* starts, only to keep the evaluation's nesting shallow: the insertions and
\* their order are those of the plain loop.
RECURSIVE InsertRange(_, _, _, _)
InsertRange(acc, s, lo, hi) ==
  IF lo > hi THEN acc
  ELSE IF lo = hi THEN Insert(acc, s[lo])
  ELSE LET mid == (lo + hi) \div 2
           left == InsertRange(acc, s, lo, mid)
       IN  IF Len(left) >= 0 THEN InsertRange(left, s, mid + 1, hi) ELSE left

Sort(s) == InsertRange(<<>>, s, 1, Len(s))

\* A mutant of topParks: the ranking is taken from the filtered list.
TopOfFiltered == Slice(Sort(filteredParks), TopLimit)

topParks ==
  IF parkData = None THEN <<>> ELSE Slice(Sort(parkData[1]), TopLimit)

\* A mutant of highlightedPark: always the first row.
HighlightedFirst ==
  IF Len(filteredParks) = 0 THEN None ELSE Some(filteredParks[1])

highlightedPark ==
  IF Len(filteredParks) = 0 THEN None
  ELSE Some(filteredParks[Min(Max(highlightIndex, 0), Len(filteredParks) - 1) + 1])

\* The template: the search input is rendered.
InputRendered == ~loading /\ parkData # None

\* The template: the result rows are rendered.
RowsRendered == InputRendered /\ resultsOpen /\ Len(filteredParks) > 0

\* The event being handled calls scrollToItem not at all.
NoScroll == scrollRequest' = None

\* ---------------------------------------------------------------- Map.vue
\* new LngLatBounds() extended by every coordinate of envelope.coordinates[0].
BoundsOf(ring) ==
  LET xs == {ring[i][1] : i \in 1..Len(ring)}
      ys == {ring[i][2] : i \in 1..Len(ring)}
      lo(S) == CHOOSE v \in S : \A w \in S : v <= w
      hi(S) == CHOOSE v \in S : \A w \in S : v >= w
  IN  <<<<lo(xs), lo(ys)>>, <<hi(xs), hi(ys)>>>>

\* parks.json of the GeoJSON variant, built from the same extract as the list:
\* the ids of its features.
GeojsonIds == 1..MaxParks

\* parks_geojson.features.find(item => item.properties.osm_id == e.osm_id),
\* as the feature's first coordinate.
FindFeature(osm_id) ==
  IF osm_id \in GeojsonIds THEN Some(ParkRing(osm_id)[1]) ELSE None

\* The viewport request the map makes for a park.
ViewportFor(variant, park) ==
  IF variant = "pmtiles"
  THEN Some([op |-> "fitBounds", bounds |-> BoundsOf(park.envelope)])
  ELSE IF FindFeature(park.osm_id) # None
       THEN Some([op |-> "flyTo", center |-> FindFeature(park.osm_id)[1]])
       ELSE None

\* emitter.on("park", ...) of the tile-archive Map.vue: fitBounds only.
OnParkPmtiles(park) ==
  /\ viewport' = ViewportFor("pmtiles", park)
  /\ UNCHANGED featureState

\* emitter.on("park", ...) of the GeoJSON Map.vue: removeFeatureState on the
\* whole source, setFeatureState on the park, flyTo when the feature is found.
OnParkGeojson(e) ==
  /\ featureState' = {e.osm_id}
  /\ viewport' = IF ViewportFor("geojson", e) # None
                 THEN ViewportFor("geojson", e) ELSE viewport

\* The deployed map's handler.
OnPark(park) ==
  IF mapVariant = "pmtiles" THEN OnParkPmtiles(park) ELSE OnParkGeojson(park)

\* Map.vue mounted(): this.emitter.on("park", handler).
MapMounted ==
  /\ ~subscribed
  /\ subscribed' = TRUE
  /\ lastEvent' = <<"map_mounted">>
  /\ NoScroll
  /\ UNCHANGED <<parkData, loading, createdAt, mountPc, listVars, mapVariant,
                 featureState, viewport, busVars>>

\* ------------------------------------------------------------ the event bus
\* A mutant of PickItem: the handler is called twice.
PickItemTwice(item) ==
  /\ published' = Append(published, item)
  /\ IF subscribed
     THEN OnPark(item) /\ delivered' = delivered \o <<item, item>>
     ELSE UNCHANGED <<delivered, featureState, viewport>>

\* pickItem: emitter.emit("park", item). mitt calls every handler registered at
\* that moment, synchronously, and keeps nothing.
PickItem(item) ==
  /\ published' = Append(published, item)
  /\ IF subscribed
     THEN OnPark(item) /\ delivered' = Append(delivered, item)
     ELSE UNCHANGED <<delivered, featureState, viewport>>

\* ------------------------------------------------------ Parks.vue mounted()
Awaiting == {"fetch_metadata", "parse_metadata", "fetch_stats", "decode"}

\* await fetch(metadataUrl) resolves.
MetadataFetched ==
  /\ mountPc = "fetch_metadata"
  /\ mountPc' = "parse_metadata"
  /\ lastEvent' = <<"load">>
  /\ NoScroll
  /\ UNCHANGED <<parkData, loading, createdAt, listVars, mapVars, busVars>>

\* A mutant of MetadataParsed: loading is cleared with the metadata.
MetadataParsedClearsLoading(created_at) ==
  /\ mountPc = "parse_metadata"
  /\ createdAt' = Some(FormatDate(created_at))
  /\ loading' = FALSE
  /\ mountPc' = "fetch_stats"
  /\ lastEvent' = <<"load">>
  /\ NoScroll
  /\ UNCHANGED <<parkData, listVars, mapVars, busVars>>

\* await metadataResponse.json() resolves; createdAt is set.
MetadataParsed(created_at) ==
  /\ mountPc = "parse_metadata"
  /\ createdAt' = Some(FormatDate(created_at))
  /\ mountPc' = "fetch_stats"
  /\ lastEvent' = <<"load">>
  /\ NoScroll
  /\ UNCHANGED <<parkData, loading, listVars, mapVars, busVars>>

\* await asyncBufferFromUrl({url}) resolves.
StatsFetched ==
  /\ mountPc = "fetch_stats"
  /\ mountPc' = "decode"
  /\ lastEvent' = <<"load">>
  /\ NoScroll
  /\ UNCHANGED <<parkData, loading, createdAt, listVars, mapVars, busVars>>

\* watch: parkData() { this.highlightIndex = 0 }
WatchParkData(index) == 0

\* await parquetReadObjects(...) resolves; parkData is set, loading cleared.
StatsDecoded(data) ==
  /\ mountPc = "decode"
  /\ parkData' = Some(data)
  /\ highlightIndex' = WatchParkData(highlightIndex)
  /\ loading' = FALSE
  /\ mountPc' = "done"
  /\ lastEvent' = <<"load">>
  /\ UNCHANGED <<createdAt, selected, searchQuery, resultsOpen, focused,
                 timers, mapVars, busVars>>
  /\ NoScroll

\* Any of the four awaits rejects: mounted() has no try/catch, so the promise
\* it returned rejects and nothing after the await runs.
MountRejected ==
  /\ mountPc \in Awaiting
  /\ mountPc' = "rejected"
  /\ lastEvent' = <<"load_failed">>
  /\ NoScroll
  /\ UNCHANGED <<parkData, loading, createdAt, listVars, mapVars, busVars>>

\* ------------------------------------------------------- Parks.vue methods
loadVars == <<parkData, loading, createdAt, mountPc>>

\* A mutant of WatchSearchQuery: the highlight is kept.
WatchSearchQueryKeep(index) == index

\* watch: searchQuery() { this.highlightIndex = 0 }
WatchSearchQuery(index) == 0

\* v-model="searchQuery": an input event changes the text; the watcher runs
\* before the next event is handled.
Input(query) ==
  /\ InputRendered /\ focused
  /\ query # searchQuery
  /\ searchQuery' = query
  /\ highlightIndex' = WatchSearchQuery(highlightIndex)
  /\ lastEvent' = <<"input">>
  /\ UNCHANGED <<loadVars, selected, resultsOpen, focused, timers,
                 mapVars, busVars>>
  /\ NoScroll

\* @focus="openResults"
OpenResults ==
  /\ InputRendered /\ ~focused
  /\ focused' = TRUE
  /\ resultsOpen' = TRUE
  /\ lastEvent' = <<"focus">>
  /\ UNCHANGED <<loadVars, selected, searchQuery, highlightIndex, timers,
                 mapVars, busVars>>
  /\ NoScroll

\* @blur="closeResultsSoon": setTimeout(..., 150); the timer's id is dropped.
CloseResultsSoon ==
  /\ InputRendered /\ focused
  /\ timers < MaxTimers
  /\ focused' = FALSE
  /\ timers' = timers + 1
  /\ lastEvent' = <<"blur">>
  /\ UNCHANGED <<loadVars, selected, searchQuery, highlightIndex, resultsOpen,
                 mapVars, busVars>>
  /\ NoScroll

\* The callback of closeResultsSoon's timer.
TimerFired ==
  /\ timers > 0
  /\ timers' = timers - 1
  /\ resultsOpen' = FALSE
  /\ lastEvent' = <<"timer">>
  /\ UNCHANGED <<loadVars, selected, searchQuery, highlightIndex, focused,
                 mapVars, busVars>>
  /\ NoScroll

\* @mouseenter="setHighlight(index)" on a rendered row.
SetHighlight(index) ==
  /\ RowsRendered
  /\ index \in 0..(Len(filteredParks) - 1)
  /\ highlightIndex' = index
  /\ lastEvent' = <<"mouseenter", index>>
  /\ UNCHANGED <<loadVars, selected, searchQuery, resultsOpen, focused,
                 timers, mapVars, busVars>>
  /\ NoScroll

\* A mutant of CommitSelection: the panel is left open.
CommitSelectionStayOpen(park) ==
  IF park = None
  THEN UNCHANGED <<selected, resultsOpen, mapVars, busVars>>
  ELSE /\ selected' = park
       /\ PickItem(park[1])
       /\ UNCHANGED <<resultsOpen, mapVariant, subscribed>>

\* commitSelection(park), park nullable.
CommitSelection(park) ==
  IF park = None
  THEN UNCHANGED <<selected, resultsOpen, mapVars, busVars>>
  ELSE /\ selected' = park
       /\ PickItem(park[1])
       /\ resultsOpen' = FALSE
       /\ UNCHANGED <<mapVariant, subscribed>>

\* @mousedown.prevent="commitSelection(item)" on a rendered row; the default
\* is prevented, so the input keeps or lacks the focus as before.
MouseDownRow(index) ==
  /\ RowsRendered
  /\ index \in 0..(Len(filteredParks) - 1)
  /\ Len(published) < MaxEvents
  /\ CommitSelection(Some(filteredParks[index + 1]))
  /\ lastEvent' = <<"mousedown", index>>
  /\ NoScroll
  /\ UNCHANGED <<loadVars, searchQuery, highlightIndex, focused, timers>>

\* A mutant of ScrollToHighlight: scrollToItem gets the highlight as it was
\* before the key.
ScrollToPrevious ==
  scrollRequest' = IF RowsRendered THEN Some(highlightIndex) ELSE None

\* scrollToHighlight(): $refs.resultsScroller exists while the rows are
\* rendered; scrollToItem gets the highlight just set.
ScrollToHighlight ==
  scrollRequest' = IF RowsRendered THEN Some(highlightIndex') ELSE None

Keys == {"ArrowDown", "ArrowUp", "Enter", "Escape"}

\* onSearchKeydown(event) with event.key = key.
OnSearchKeydown(key) ==
  IF Len(filteredParks) = 0
  THEN /\ NoScroll
       /\ UNCHANGED <<highlightIndex, selected, resultsOpen, mapVars, busVars>>
  ELSE CASE key = "ArrowDown" ->
              /\ highlightIndex' =
                   Min(highlightIndex + 1, Len(filteredParks) - 1)
              /\ ScrollToHighlight
              /\ UNCHANGED <<selected, resultsOpen, mapVars, busVars>>
         [] key = "ArrowUp" ->
              /\ highlightIndex' = Max(highlightIndex - 1, 0)
              /\ ScrollToHighlight
              /\ UNCHANGED <<selected, resultsOpen, mapVars, busVars>>
         [] key = "Enter" ->
              /\ CommitSelection(highlightedPark)
              /\ NoScroll
              /\ UNCHANGED highlightIndex
         [] key = "Escape" ->
              /\ resultsOpen' = FALSE
              /\ NoScroll
              /\ UNCHANGED <<highlightIndex, selected, mapVars, busVars>>
         [] OTHER ->
              /\ NoScroll
              /\ UNCHANGED <<highlightIndex, selected, resultsOpen, mapVars,
                             busVars>>

\* @keydown="onSearchKeydown" on the focused input.
KeyDown(key) ==
  /\ InputRendered /\ focused
  /\ (key = "Enter" /\ Len(filteredParks) > 0) => Len(published) < MaxEvents
  /\ OnSearchKeydown(key)
  /\ lastEvent' = <<"keydown", key>>
  /\ UNCHANGED <<loadVars, searchQuery, focused, timers>>

\* A mutant of SelectPark: the event is published, selected is not set.
SelectParkKeepSelected(park) ==
  /\ PickItem(park)
  /\ UNCHANGED <<selected, resultsOpen, mapVariant, subscribed>>

\* selectPark(park)
SelectPark(park) ==
  /\ selected' = Some(park)
  /\ PickItem(park)
  /\ UNCHANGED <<resultsOpen, mapVariant, subscribed>>

\* @click="selectPark(park)" on an entry of the top-10 list. The press that
\* starts the click takes the focus from the input first (its blur is
\* CloseResultsSoon), so the click arrives with the input unfocused.
ClickTop(k) ==
  /\ InputRendered /\ ~focused
  /\ k \in 1..Len(topParks)
  /\ Len(published) < MaxEvents
  /\ SelectPark(topParks[k])
  /\ lastEvent' = <<"click", k>>
  /\ NoScroll
  /\ UNCHANGED <<loadVars, searchQuery, highlightIndex, focused, timers>>

\* ------------------------------------------------------------ specifications
Init ==
  /\ parkData = None
  /\ selected = None
  /\ loading = TRUE
  /\ createdAt = None
  /\ searchQuery = <<>>
  /\ highlightIndex = 0
  /\ resultsOpen = FALSE
  /\ mountPc = "fetch_metadata"
  /\ focused = FALSE
  /\ timers = 0
  /\ scrollRequest = None
  /\ mapVariant \in {"pmtiles", "geojson"}
  /\ subscribed = FALSE
  /\ featureState = {}
  /\ viewport = None
  /\ published = <<>>
  /\ delivered = <<>>
  /\ lastEvent = <<"created">>

\* The page with a statistics file of at most MaxParks records.
Next ==
  \/ MapMounted
  \/ MetadataFetched
  \/ MetadataParsed("2024-05-01T12:00:00Z")
  \/ StatsFetched
  \/ \E data \in SmallFiles : StatsDecoded(data)
  \/ MountRejected
  \/ \E q \in UiQueries : Input(q)
  \/ OpenResults
  \/ CloseResultsSoon
  \/ TimerFired
  \/ \E i \in 0..(MaxParks - 1) : SetHighlight(i)
  \/ \E i \in 0..(MaxParks - 1) : MouseDownRow(i)
  \/ \E key \in Keys : KeyDown(key)
  \/ \E k \in 1..MaxParks : ClickTop(k)

Spec == Init /\ [][Next]_vars

\* The list over statistics files up to just past searchLimit: the mount and
\* the typing of a query.
DataInit == Init /\ mapVariant = "pmtiles"

DataNext ==
  \/ MetadataFetched
  \/ \E c \in CreatedAts : MetadataParsed(c)
  \/ StatsFetched
  \/ \E data \in LargeFiles : StatsDecoded(data)
  \/ OpenResults
  \/ \E q \in DataQueries : Input(q)

DataSpec == DataInit /\ [][DataNext]_vars

\* ------------------------------------------------------------------ claims
\* The loaded dataset ([] before the load).
Dataset == IF parkData = None THEN <<>> ELSE parkData[1]

\* The text a query is matched against: name, city and state, a null field
\* empty, joined by single spaces.
ParkText(park) ==
  StringOf(park.name) \o <<" ">> \o StringOf(park.city) \o <<" ">>
    \o StringOf(park.state)

\* The same letter, in either case.
SameLetter(a, b) ==
  a = b \/ {a, b} \in {{"p", "P"}, {"c", "C"}, {"e", "E"}}

\* text contains q as a case-insensitive substring.
ContainsNoCase(text, q) ==
  \E off \in 0..(Len(text) - Len(q)) :
    \A i \in 1..Len(q) : SameLetter(text[off + i], q[i])

\* The indices of the records of data whose text contains q, ascending.
MatchingIndices(data, q) ==
  SelectSeq([i \in 1..Len(data) |-> i],
            LAMBDA i : ContainsNoCase(ParkText(data[i]), q))

\* list is exactly the first SearchLimit records of data, in data's order,
\* whose text contains q.
IsFirstMatches(list, data, q) ==
  LET idx == MatchingIndices(data, q)
  IN  /\ Len(list) = Min(SearchLimit, Len(idx))
      /\ \A k \in 1..Len(list) : list[k] = data[idx[k]]

\* C1 as stated: for every loaded dataset and every query q, filteredParks is
\* exactly the first 2000 records, in dataset order, whose name, city and state
\* text contains q as a case-insensitive substring.
C1_FilteredByQueryAsTyped ==
  parkData # None => IsFirstMatches(filteredParks, Dataset, searchQuery)

\* C1, amended: for every loaded dataset and every query q, filteredParks is
\* exactly the first 2000 records, in dataset order, whose name, city and state
\* text contains q with its leading and trailing whitespace removed, as a
\* case-insensitive substring.
C1_FilteredByTrimmedQuery ==
  parkData # None => IsFirstMatches(filteredParks, Dataset, Trim(searchQuery))

\* C1's case: a query with an upper-case letter and a blank to trim, over a
\* dataset with more than 2000 matches, some record before the cut left out.
C1_Witness ==
  /\ parkData # None
  /\ searchQuery = <<"P", " ">>
  /\ Len(MatchingIndices(Dataset, Trim(searchQuery))) > SearchLimit
  /\ Len(filteredParks) = SearchLimit
  /\ filteredParks[SearchLimit].osm_id > SearchLimit

\* C2: topParks has length min(10, |dataset|), is sorted in descending order of
\* count, and records of equal count appear in dataset order; it is empty
\* while the dataset is null.
C2_TopParksSortedStable ==
  LET top == topParks
      data == Dataset
      pos(r) == CHOOSE i \in 1..Len(data) : data[i].osm_id = r.osm_id
  IN  /\ Len(top) = Min(TopLimit, Len(data))
      /\ \A k \in 1..Len(top) : \E i \in 1..Len(data) : data[i] = top[k]
      /\ \A k, l \in 1..Len(top) :
           k < l =>
             \/ top[k].count > top[l].count
             \/ /\ top[k].count = top[l].count
                /\ pos(top[k]) < pos(top[l])

\* C2's case: more than 10 records, the sort moved some, and two of the top 10
\* tie.
C2_Witness ==
  /\ Len(Dataset) > TopLimit
  /\ topParks # Slice(Dataset, TopLimit)
  /\ \E k \in 1..(Len(topParks) - 1) : topParks[k].count = topParks[k + 1].count

Last(s) == s[Len(s)]

\* The step is a commit from the results panel, of record park: a mousedown
\* on the row showing it, or Enter with it highlighted in a non-empty list.
IsCommitOf(park) ==
  \/ /\ lastEvent'[1] = "mousedown"
     /\ park = filteredParks[lastEvent'[2] + 1]
  \/ /\ lastEvent' = <<"keydown", "Enter">>
     /\ Len(filteredParks) > 0
     /\ park = highlightedPark[1]

\* C3: committing a selection from the results panel (mousedown on a row, or
\* Enter on the highlighted row of a non-empty list) publishes exactly one
\* "park" event whose payload is the committed record, sets selected to it and
\* leaves resultsOpen false; no step publishes more than one event.
C3_CommitPublishesOnce ==
  [][/\ \A park \in {Dataset[i] : i \in 1..Len(Dataset)} :
          IsCommitOf(park) =>
            /\ published' = Append(published, park)
            /\ Last(published').osm_id = park.osm_id
            /\ selected' = Some(park)
            /\ ~resultsOpen'
     /\ Len(published') <= Len(published) + 1
    ]_vars

\* C3's case: two commits of different records, the second by Enter.
C3_Witness ==
  /\ lastEvent = <<"keydown", "Enter">>
  /\ Len(published) = 2
  /\ published[1] # published[2]
  /\ selected = Some(published[2])
  /\ ~resultsOpen

\* C4: in every reachable state in which filteredParks is non-empty,
\* 0 <= highlightIndex <= |filteredParks| - 1.
C4_HighlightInRange ==
  Len(filteredParks) > 0 =>
    (0 <= highlightIndex /\ highlightIndex <= Len(filteredParks) - 1)

\* C4's case: ArrowDown on the last row of a list of several rows.
C4_Witness ==
  /\ lastEvent = <<"keydown", "ArrowDown">>
  /\ Len(filteredParks) > 1
  /\ highlightIndex = Len(filteredParks) - 1
  /\ scrollRequest = Some(highlightIndex)

\* C5: if the metadata fetch, the metadata JSON parse, the statistics-file
\* fetch or the parquet decode fails during mount, the component ends with
\* loading = false and parkData = null.
C5_FailedMountShowsNoData ==
  mountPc = "rejected" => (~loading /\ parkData = None)

\* C6: after one or more "park" events received by the map, exactly one park
\* feature has the highlight feature-state set, that of the park selected last.
C6_OneFeatureHighlighted ==
  delivered # <<>> => featureState = {Last(delivered).osm_id}

\* C7: whenever resultsOpen is true, an Escape keydown in the search input
\* sets resultsOpen to false in that same step, for every query and dataset.
C7_EscapeCloses ==
  [][(resultsOpen /\ lastEvent' = <<"keydown", "Escape">>) => ~resultsOpen'
    ]_vars

\* C8: a panel opened by a focus stays open for as long as the input remains
\* focused and no Escape or commit occurs; a timer started by an earlier blur
\* never closes it.
C8_RefocusCancelsClose ==
  [][(/\ focused /\ resultsOpen /\ focused'
      /\ lastEvent' # <<"keydown", "Escape">>
      /\ lastEvent' # <<"keydown", "Enter">>
      /\ lastEvent'[1] # "mousedown") => resultsOpen'
    ]_vars

\* C9: in every reachable state with loading = false, both createdAt and
\* parkData are non-null: neither await of mounted() is still pending.
C9_LoadingClearsLast ==
  ~loading => (createdAt # None /\ parkData # None /\ mountPc = "done")

\* C9's case: the mount has finished.
C9_Witness ==
  /\ ~loading
  /\ createdAt = Some("May 1, 2024")
  /\ parkData # None /\ Len(parkData[1]) > 0

C11_ChangeResetsHighlight ==
  [][(searchQuery' # searchQuery \/ parkData' # parkData) =>
       highlightIndex' = 0
    ]_vars

\* C11's case: a query typed over a list of several rows, the panel open.
C11_Witness ==
  /\ lastEvent = <<"input">>
  /\ searchQuery = <<" ">>
  /\ resultsOpen
  /\ Len(filteredParks) > 1
  /\ highlightIndex = 0

\* C12: every step that selects a record, a click on an entry of the top-10
\* list while the results panel is open included, publishes exactly one event,
\* for the record selected, and leaves resultsOpen false.
C12_SelectClosesPanel ==
  [][published' # published =>
       /\ Len(published') = Len(published) + 1
       /\ selected' = Some(Last(published'))
       /\ ~resultsOpen'
    ]_vars

\* C13: a blur leaves resultsOpen as it was, and while the input is not
\* focused again an open panel stays open until the timer of that blur, the
\* one started last, fires, or a mousedown on a row commits; such a mousedown
\* publishes the row's record. Timers of equal delay fire in the order they
\* were started, so the timer started last is the one that leaves none pending.
C13_OpenUntilDebounceFires ==
  [][/\ lastEvent' = <<"blur">> => resultsOpen' = resultsOpen
     /\ (~focused /\ ~focused' /\ resultsOpen /\ ~resultsOpen') =>
          \/ lastEvent' = <<"timer">> /\ timers' = 0
          \/ lastEvent'[1] = "mousedown"
     /\ (~focused /\ lastEvent'[1] = "mousedown") =>
          published' = Append(published, filteredParks[lastEvent'[2] + 1])
    ]_vars

\* Record i of data ranks before record j: a larger count, or the same count
\* and an earlier place.
RanksBefore(data, i, j) ==
  \/ data[i].count > data[j].count
  \/ data[i].count = data[j].count /\ i < j

\* The ranking of data: its first TopLimit records in rank order.
Ranking(data) ==
  [k \in 1..Min(TopLimit, Len(data)) |->
     data[CHOOSE i \in 1..Len(data) :
            Cardinality({j \in 1..Len(data) : RanksBefore(data, j, i)}) = k - 1]]

\* C14: topParks depends only on the dataset: in every reachable state,
\* whatever searchQuery, highlightIndex, resultsOpen and selected have become
\* by typing, key navigation, focus, blur and commits, topParks is the ranking
\* of the whole dataset; so no step that keeps the dataset changes topParks.
C14_TopParksOfDatasetOnly ==
  topParks = Ranking(Dataset)

\* C14's case: a query that filters the list down to one of two records, one
\* of them selected, and topParks still both, in count order.
C14_Witness ==
  /\ Len(Dataset) = 2
  /\ searchQuery = <<"p">>
  /\ Len(filteredParks) = 1
  /\ selected # None
  /\ Len(topParks) = 2
  /\ topParks # Dataset
  /\ topParks[1].count > topParks[2].count

\* What ArrowDown and ArrowUp do to the highlight over a list of n rows.
ArrowTarget(key, index, n) ==
  IF key = "ArrowDown" THEN Min(index + 1, n - 1) ELSE Max(index - 1, 0)

\* The step is an ArrowDown or ArrowUp keydown that moves the highlight as
\* claimed, asks the list view to scroll to the new highlight, leaves
\* searchQuery, resultsOpen and selected alone and publishes nothing.
ArrowMovesAndScrolls(key) ==
  /\ highlightIndex' = ArrowTarget(key, highlightIndex, Len(filteredParks))
  /\ scrollRequest' = Some(highlightIndex')
  /\ UNCHANGED <<searchQuery, resultsOpen, selected, published>>

\* C15 as stated: with a non-empty filtered list of length n, ArrowDown sets
\* highlightIndex to min(highlightIndex + 1, n - 1) and ArrowUp to
\* max(highlightIndex - 1, 0), each requests a scroll to the new highlight, and
\* neither changes searchQuery, resultsOpen or selected nor publishes.
C15_ArrowsMoveAndScroll ==
  [][\A key \in {"ArrowDown", "ArrowUp"} :
       (lastEvent' = <<"keydown", key>> /\ Len(filteredParks) > 0) =>
         ArrowMovesAndScrolls(key)
    ]_vars

\* C15, amended: the same while the results panel is open, the only time a
\* list view exists to take the scroll request.
C15_ArrowsMoveAndScrollWhileOpen ==
  [][\A key \in {"ArrowDown", "ArrowUp"} :
       (lastEvent' = <<"keydown", key>> /\ Len(filteredParks) > 0
          /\ resultsOpen) =>
         ArrowMovesAndScrolls(key)
    ]_vars

\* C15's case: ArrowUp on the first row of an open list of several rows, a
\* record selected before.
C15_Witness ==
  /\ lastEvent = <<"keydown", "ArrowUp">>
  /\ resultsOpen
  /\ Len(filteredParks) > 1
  /\ highlightIndex = 0
  /\ scrollRequest = Some(0)
  /\ selected # None

\* C16: an Enter keydown over an empty filtered list publishes nothing and
\* leaves selected, resultsOpen and highlightIndex as they were; over a
\* non-empty list it commits exactly filteredParks[highlightIndex clamped to
\* the list], which is the row the template marks active (index =
\* highlightIndex).
C16_EnterCommitsActiveRow ==
  [][lastEvent' = <<"keydown", "Enter">> =>
       IF Len(filteredParks) = 0
       THEN UNCHANGED <<published, selected, resultsOpen, highlightIndex>>
       ELSE LET n == Len(filteredParks)
                park == filteredParks[Min(Max(highlightIndex, 0), n - 1) + 1]
            IN  /\ park = filteredParks[highlightIndex + 1]
                /\ published' = Append(published, park)
                /\ selected' = Some(park)
                /\ ~resultsOpen'
                /\ UNCHANGED highlightIndex
    ]_vars

\* C16's case: Enter with the second row highlighted commits the second row.
C16_Witness ==
  /\ lastEvent = <<"keydown", "Enter">>
  /\ highlightIndex = 1
  /\ Len(filteredParks) = 2
  /\ published = <<filteredParks[2]>>
  /\ selected = Some(filteredParks[2])
  /\ ~resultsOpen

\* C17: while resultsOpen is false, an ArrowUp, ArrowDown or Enter keydown
\* changes neither highlightIndex nor selected and publishes nothing.
C17_KeysInertWhileClosed ==
  [][(/\ ~resultsOpen
      /\ lastEvent'[1] = "keydown"
      /\ lastEvent'[2] \in {"ArrowUp", "ArrowDown", "Enter"}) =>
       UNCHANGED <<highlightIndex, selected, published>>
    ]_vars

\* C18: in every reachable state, selected is null exactly when no "park"
\* event has been published, otherwise it is the payload of the event
\* published last; and every payload published is a record of the dataset.
C18_SelectedIsLastPublished ==
  /\ selected = None <=> published = <<>>
  /\ published # <<>> => selected = Some(Last(published))
  /\ \A k \in 1..Len(published) :
       \E i \in 1..Len(Dataset) : Dataset[i] = published[k]

\* C18's case: a row committed, then a different park picked from the top-10
\* list.
C18_Witness ==
  /\ lastEvent[1] = "click"
  /\ Len(published) = 2
  /\ published[1] # published[2]
  /\ selected = Some(published[2])

====
